---- MODULE Spec2Model ----
(***************************************************************************)
(* A model of the S3Wrapper package: S3Auth (credential resolution) and    *)
(* S3Wrapper (a client bound to one verified bucket).  Two variants of     *)
(* the package live in the repository: src/S3Wrapper ("S3Wrapper" below)   *)
(* and src/s3wrapper ("s3wrapper" below).  The SDK (boto3), the local file *)
(* system and the operator's terminal are the environment: their answers   *)
(* are inputs of the actions, their state is part of the model's state.    *)
(***************************************************************************)
EXTENDS Integers, Sequences, FiniteSets, TLC

VARIABLES
    fs,        \* the credential directory <key_location>: file name -> file
    wrapper,   \* the S3Wrapper instance: its client handle and bound bucket
    remote,    \* the remote service: bucket -> object key -> object
    disk,      \* local paths used by upload and download: path -> file
    uploaded,  \* history: key -> the bytes of the last upload not yet deleted
    last       \* the last call: operation, arguments, result, SDK requests

vars == <<fs, wrapper, remote, disk, uploaded, last>>

----------------------------------------------------------------------------
(* Bounds of the model.                                                    *)

MaxCredLen == 2     \* longest text of a credential file
MaxBuckets == 2     \* longest bucket listing
MaxBatch == 2       \* longest key list given to delete_from_list
MaxFaults == 1      \* most SDK requests of one delete_from_list that fail
PageSize == 1       \* keys on one page of the service's object listing
MaxPages == 2       \* most pages of a listing given to get_objects
MaxPageLen == 2     \* most keys on one such page

----------------------------------------------------------------------------
(* Python values.  A str is a sequence of characters, so that strip,       *)
(* startswith and endswith are computed character by character.  The       *)
(* characters of a key or a bucket name are one-character strings; those   *)
(* of a credential, most of whose whitespace has no printed form, are code *)
(* points.                                                                 *)

PyNone == [kind |-> "None"]
PyStr(s) == [kind |-> "str", s |-> s]
PyBool(b) == [kind |-> "bool", b |-> b]
PyInt(n) == [kind |-> "int", n |-> n]
PyList(l) == [kind |-> "list", l |-> l]
PyDict(d) == [kind |-> "dict", d |-> d]
PyItems(items) == [kind |-> "dict", items |-> items]
PyBytes(b) == [kind |-> "bytes", bytes |-> b]
PyTime(t) == [kind |-> "datetime", t |-> t]

\* an exception that left the call, or none
NoExc == [exc |-> "none", msg |-> ""]
Exc(cls, msg) == [exc |-> cls, msg |-> msg]

\* truth value of `x` where x is None or a str (bool(None), bool(""))
Truthy(x) == x.kind = "str" /\ x.s # <<>>

\* the code points c with chr(c).isspace(), which str.strip() removes:
\* U+0009..U+000D, U+001C..U+0020, U+0085, U+00A0, U+1680, U+2000..U+200A,
\* U+2028, U+2029, U+202F, U+205F, U+3000
Whitespace ==
    (9..13) \cup (28..32) \cup {133, 160, 5760} \cup (8192..8202)
        \cup {8232, 8233, 8239, 8287, 12288}

\* file.read() of a file opened in text mode with newline=None: the line
\* ends "\r\n" and "\r" are read as "\n"
RECURSIVE universal_newlines(_)
universal_newlines(s) ==
    IF s = <<>> THEN <<>>
    ELSE IF Head(s) = 13
         THEN <<10>> \o universal_newlines(
                  IF Len(s) >= 2 /\ s[2] = 10 THEN Tail(Tail(s)) ELSE Tail(s))
         ELSE <<Head(s)>> \o universal_newlines(Tail(s))

RECURSIVE lstrip(_)
lstrip(s) ==
    IF s # <<>> /\ Head(s) \in Whitespace THEN lstrip(Tail(s)) ELSE s

RECURSIVE rstrip(_)
rstrip(s) ==
    IF s # <<>> /\ s[Len(s)] \in Whitespace
    THEN rstrip(SubSeq(s, 1, Len(s) - 1))
    ELSE s

\* str.strip()
strip(s) == rstrip(lstrip(s))

startswith(s, p) == Len(p) <= Len(s) /\ SubSeq(s, 1, Len(p)) = p

endswith(s, p) ==
    Len(p) <= Len(s) /\ SubSeq(s, Len(s) - Len(p) + 1, Len(s)) = p

\* all sequences over S of length 0..n
RECURSIVE SeqsUpTo(_, _)
SeqsUpTo(S, n) ==
    IF n = 0 THEN {<<>>}
    ELSE LET shorter == SeqsUpTo(S, n - 1)
         IN shorter \cup {Append(q, x) : q \in shorter, x \in S}

Packages == {"S3Wrapper", "s3wrapper"}

----------------------------------------------------------------------------
(* S3Auth: credential resolution.                                          *)

NoFile == [isfile |-> FALSE]
File(text) == [isfile |-> TRUE, text |-> text]

\* "A" and "\n"
CredChars == {65, 10}
CredTexts == SeqsUpTo(CredChars, MaxCredLen)
CredFiles == {NoFile} \cup {File(t) : t \in CredTexts}

\* S3Auth._file_read: the text read from the file, stripped
file_read(f) == strip(universal_newlines(f.text))

\* S3Auth._read_keys of src/s3wrapper: FileNotFoundError unless both files exist
read_keys_s3wrapper(dir) ==
    IF ~(dir.key.isfile /\ dir.private_key.isfile)
    THEN [raised |-> Exc("FileNotFoundError", "no key or private key"),
          read |-> {}]
    ELSE [raised |-> NoExc,
          read |-> {"key", "private_key"},
          access_key |-> PyStr(file_read(dir.key)),
          secret_access_key |-> PyStr(file_read(dir.private_key))]

\* S3Auth._read_keys of src/S3Wrapper: `raise print(...)` raises the value
\* print returns, None, which is no exception: Python raises TypeError
read_keys_S3Wrapper(dir) ==
    IF ~dir.key.isfile \/ ~dir.private_key.isfile
    THEN [raised |-> Exc("TypeError", "exceptions must derive from BaseException"),
          read |-> {}]
    ELSE [raised |-> NoExc,
          read |-> {"key", "private_key"},
          access_key |-> PyStr(file_read(dir.key)),
          secret_access_key |-> PyStr(file_read(dir.private_key))]

read_keys(pkg, dir) ==
    IF pkg = "s3wrapper" THEN read_keys_s3wrapper(dir)
    ELSE read_keys_S3Wrapper(dir)

\* S3Auth._create_client / S3Auth._client: the explicit pair when both are
\* truthy, the pair of the files otherwise; then boto3.client(...)
create_client(pkg, dir, region, access_key, secret_access_key) ==
    IF ~Truthy(access_key) \/ ~Truthy(secret_access_key)
    THEN LET k == read_keys(pkg, dir)
         IN IF k.raised # NoExc
            THEN [raised |-> k.raised, read |-> k.read]
            ELSE [raised |-> NoExc, read |-> k.read,
                  client |-> [aws_access_key_id |-> k.access_key,
                              aws_secret_access_key |-> k.secret_access_key,
                              region_name |-> region]]
    ELSE [raised |-> NoExc, read |-> {},
          client |-> [aws_access_key_id |-> access_key,
                      aws_secret_access_key |-> secret_access_key,
                      region_name |-> region]]

----------------------------------------------------------------------------
(* hashlib.sha256(...).hexdigest(), computed as FIPS 180-4 states it.  A   *)
(* 32-bit word is the pair <<high 16 bits, low 16 bits>>.                  *)

Half == 65536

RECURSIVE Pow2(_)
Pow2(n) == IF n = 0 THEN 1 ELSE 2 * Pow2(n - 1)

\* bitwise and, exclusive or of two n-bit numbers
RECURSIVE And16(_, _, _)
And16(x, y, n) ==
    IF n = 0 THEN 0
    ELSE (x % 2) * (y % 2) + 2 * And16(x \div 2, y \div 2, n - 1)

RECURSIVE Xor16(_, _, _)
Xor16(x, y, n) ==
    IF n = 0 THEN 0
    ELSE (((x % 2) + (y % 2)) % 2) + 2 * Xor16(x \div 2, y \div 2, n - 1)

WAnd(x, y) == <<And16(x[1], y[1], 16), And16(x[2], y[2], 16)>>
WXor(x, y) == <<Xor16(x[1], y[1], 16), Xor16(x[2], y[2], 16)>>
WNot(x) == <<Half - 1 - x[1], Half - 1 - x[2]>>

\* addition modulo 2^32
WAdd(x, y) ==
    LET lo == x[2] + y[2]
        hi == x[1] + y[1] + (lo \div Half)
    IN <<hi % Half, lo % Half>>

\* right shift and right rotation by n, 0 < n < 32
ShR(x, n) ==
    IF n >= 16 THEN <<0, x[1] \div Pow2(n - 16)>>
    ELSE <<x[1] \div Pow2(n),
           (x[2] \div Pow2(n)) + (x[1] % Pow2(n)) * Pow2(16 - n)>>

RotR(x, n) ==
    LET y == IF n >= 16 THEN <<x[2], x[1]>> ELSE x
        m == IF n >= 16 THEN n - 16 ELSE n
    IN <<(y[1] \div Pow2(m)) + (y[2] % Pow2(m)) * Pow2(16 - m),
         (y[2] \div Pow2(m)) + (y[1] % Pow2(m)) * Pow2(16 - m)>>

Ch(x, y, z) == WXor(WAnd(x, y), WAnd(WNot(x), z))
Maj(x, y, z) == WXor(WXor(WAnd(x, y), WAnd(x, z)), WAnd(y, z))
BigSigma0(x) == WXor(WXor(RotR(x, 2), RotR(x, 13)), RotR(x, 22))
BigSigma1(x) == WXor(WXor(RotR(x, 6), RotR(x, 11)), RotR(x, 25))
SmallSigma0(x) == WXor(WXor(RotR(x, 7), RotR(x, 18)), ShR(x, 3))
SmallSigma1(x) == WXor(WXor(RotR(x, 17), RotR(x, 19)), ShR(x, 10))

ShaK ==
    <<
       <<17034, 12184>>, <<28983, 17553>>, <<46528, 64463>>, <<59829, 56229>>,
       <<14678, 49755>>, <<23025, 4593>>, <<37439, 33444>>, <<43804, 24277>>,
       <<55303, 43672>>, <<4739, 23297>>, <<9265, 34238>>, <<21772, 32195>>,
       <<29374, 23924>>, <<32990, 45566>>, <<39900, 1703>>, <<49563, 61812>>,
       <<58523, 27073>>, <<61374, 18310>>, <<4033, 40390>>, <<9228, 41420>>,
       <<11753, 11375>>, <<19060, 33962>>, <<23728, 43484>>, <<30457, 35034>>,
       <<38974, 20818>>, <<43057, 50797>>, <<45059, 10184>>, <<48985, 32711>>,
       <<50912, 3059>>, <<54695, 37191>>, <<1738, 25425>>, <<5161, 10599>>,
       <<10167, 2693>>, <<11803, 8504>>, <<19756, 28156>>, <<21304, 3347>>,
       <<25866, 29524>>, <<30314, 2747>>, <<33218, 51502>>, <<37490, 11397>>,
       <<41663, 59553>>, <<43034, 26187>>, <<49739, 35696>>, <<51052, 20899>>,
       <<53650, 59417>>, <<54937, 1572>>, <<62478, 13701>>, <<4202, 41072>>,
       <<6564, 49430>>, <<7735, 27656>>, <<10056, 30540>>, <<13488, 48309>>,
       <<14620, 3251>>, <<20184, 43594>>, <<23452, 51791>>, <<26670, 28659>>,
       <<29839, 33518>>, <<30885, 25455>>, <<33992, 30740>>, <<36039, 520>>,
       <<37054, 65530>>, <<42064, 27883>>, <<48889, 41975>>, <<50801, 30962>>
    >>

ShaH0 ==
    <<
       <<27145, 58983>>, <<47975, 44677>>, <<15470, 62322>>, <<42319, 62778>>,
       <<20750, 21119>>, <<39685, 26764>>, <<8067, 55723>>, <<23520, 52505>>
    >>

RECURSIVE Zeros(_)
Zeros(n) == IF n = 0 THEN <<>> ELSE <<0>> \o Zeros(n - 1)

\* the 8 bytes of the message length in bits, big-endian (lengths < 2^28)
LengthBytes(n) ==
    LET bits == 8 * n
    IN <<0, 0, 0, 0, (bits \div 16777216) % 256, (bits \div 65536) % 256,
         (bits \div 256) % 256, bits % 256>>

\* the message, the byte 0x80, zeros up to 56 modulo 64, the length
Padded(msg) ==
    LET n == Len(msg)
        z == (119 - (n % 64)) % 64
    IN msg \o <<128>> \o Zeros(z) \o LengthBytes(n)

\* the message schedule: 64 words from the 16 of the block
RECURSIVE Schedule(_)
Schedule(w) ==
    IF Len(w) = 64 THEN w
    ELSE LET t == Len(w) + 1
         IN Schedule(Append(w,
                WAdd(WAdd(SmallSigma1(w[t - 2]), w[t - 7]),
                     WAdd(SmallSigma0(w[t - 15]), w[t - 16]))))

\* the 16 big-endian words of the block after byte `off`
BlockWords(m, off) ==
    [i \in 1..16 |->
        <<m[off + 4 * i - 3] * 256 + m[off + 4 * i - 2],
          m[off + 4 * i - 1] * 256 + m[off + 4 * i]>>]

RECURSIVE Rounds(_, _, _)
Rounds(v, w, t) ==
    IF t > 64 THEN v
    ELSE LET t1 == WAdd(WAdd(WAdd(v[8], BigSigma1(v[5])),
                             WAdd(Ch(v[5], v[6], v[7]), ShaK[t])), w[t])
             t2 == WAdd(BigSigma0(v[1]), Maj(v[1], v[2], v[3]))
             \* (the test of nv below only has the round's state computed
             \* before the next round starts)
             nv == <<WAdd(t1, t2), v[1], v[2], v[3],
                     WAdd(v[4], t1), v[5], v[6], v[7]>>
         IN IF Len(nv) = 8 THEN Rounds(nv, w, t + 1) ELSE nv

Compress(h, m, off) ==
    LET w == Schedule(SubSeq(BlockWords(m, off), 1, 16))
        v == Rounds(h, w, 1)
    IN [i \in 1..8 |-> WAdd(h[i], v[i])]

RECURSIVE Blocks(_, _, _)
Blocks(h, m, off) ==
    IF off >= Len(m) THEN h
    ELSE Blocks(SubSeq(Compress(h, m, off), 1, 8), m, off + 64)

HexDigits ==
    <<"0", "1", "2", "3", "4", "5", "6", "7",
      "8", "9", "a", "b", "c", "d", "e", "f">>

Hex16(x) ==
    <<HexDigits[(x \div 4096) + 1], HexDigits[((x \div 256) % 16) + 1],
      HexDigits[((x \div 16) % 16) + 1], HexDigits[(x % 16) + 1]>>

RECURSIVE HexWords(_)
HexWords(h) ==
    IF h = <<>> THEN <<>>
    ELSE Hex16(Head(h)[1]) \o Hex16(Head(h)[2]) \o HexWords(Tail(h))

\* the digest of a byte string, as 64 hexadecimal characters
Digest(msg) == HexWords(Blocks(ShaH0, Padded(msg), 0))

\* object contents, as byte strings
Bodies == {<<>>, <<97>>}

\* the digests of the contents the model's objects can have, computed once
DigestOfBodies == [b \in Bodies |-> Digest(b)]

\* hashlib.sha256(file_contents).hexdigest()
sha256_hexdigest(file_contents) ==
    IF file_contents \in DOMAIN DigestOfBodies
    THEN DigestOfBodies[file_contents]
    ELSE Digest(file_contents)

----------------------------------------------------------------------------
(* The service's answer to list_buckets, as the SDK hands it to the code:  *)
(* a mapping that may lack 'Buckets', whose entries may lack 'Name'; or an *)
(* error raised by the SDK.  The SDK parses the answer against the         *)
(* service's description: a member that is there has the type described,   *)
(* so an answer of an unexpected shape is one that lacks a member.         *)

BucketNames == {"b1", "b2"}
AskedNames == {"b1", "b3"}

BucketEntries ==
    {[hasName |-> TRUE, Name |-> n] : n \in BucketNames}
        \cup {[hasName |-> FALSE]}

ListBucketsResponses ==
    {[raised |-> NoExc, hasBuckets |-> TRUE, Buckets |-> l] :
        l \in SeqsUpTo(BucketEntries, MaxBuckets)}
        \cup {[raised |-> NoExc, hasBuckets |-> FALSE]}
        \cup {[raised |-> Exc("ClientError", "403")]}

\* the listing is a mapping with 'Buckets' whose entries all carry 'Name'
WellFormed(resp) ==
    /\ resp.raised = NoExc
    /\ resp.hasBuckets
    /\ \A i \in 1..Len(resp.Buckets) : resp.Buckets[i].hasName

ListedNames(resp) == {resp.Buckets[i].Name : i \in 1..Len(resp.Buckets)}

\* S3Wrapper.buckets_list: the names, in listing order; a KeyError of the
\* subscripts ['Buckets'] and ['Name'] becomes S3Exception; an error of the
\* SDK call itself is not caught
buckets_list(resp) ==
    IF resp.raised # NoExc THEN [raised |-> resp.raised]
    ELSE IF ~resp.hasBuckets
    THEN [raised |-> Exc("S3Exception", "error while getting bucket list")]
    ELSE IF \E i \in 1..Len(resp.Buckets) : ~resp.Buckets[i].hasName
    THEN [raised |-> Exc("S3Exception", "error while getting bucket list")]
    ELSE [raised |-> NoExc,
          ret |-> [i \in 1..Len(resp.Buckets) |-> resp.Buckets[i].Name]]

\* check_bucket_name without the membership test
check_bucket_name_unchecked(bucket_name, resp) ==
    LET l == buckets_list(resp)
    IN IF l.raised # NoExc THEN [raised |-> l.raised]
       ELSE [raised |-> NoExc, ret |-> bucket_name]

\* S3Wrapper._check_bucket_name / S3Wrapper._get_bucket
check_bucket_name(bucket_name, resp) ==
    LET l == buckets_list(resp)
    IN IF l.raised # NoExc THEN [raised |-> l.raised]
       ELSE IF \E i \in 1..Len(l.ret) : l.ret[i] = bucket_name
       THEN [raised |-> NoExc, ret |-> bucket_name]
       ELSE [raised |-> Exc("S3Exception", "bucket not found")]

NoWrapper == [constructed |-> FALSE]

\* S3Wrapper.__init__: the client of S3Auth, then the verified bucket name;
\* an exception of either step leaves no instance
S3Wrapper_init(pkg, dir, bucket_name, region, access_key, secret_access_key, resp) ==
    LET auth == create_client(pkg, dir, region, access_key, secret_access_key)
    IN IF auth.raised # NoExc
       THEN [raised |-> auth.raised, read |-> auth.read, listed |-> FALSE,
             s3 |-> PyNone, self |-> NoWrapper]
       ELSE LET b == check_bucket_name(bucket_name, resp)
            IN IF b.raised # NoExc
               THEN [raised |-> b.raised, read |-> auth.read, listed |-> TRUE,
                     s3 |-> auth.client, self |-> NoWrapper]
               ELSE [raised |-> NoExc, read |-> auth.read, listed |-> TRUE,
                     s3 |-> auth.client,
                     self |-> [constructed |-> TRUE, pkg |-> pkg,
                               s3 |-> auth.client, bucket |-> b.ret]]

----------------------------------------------------------------------------
(* The remote service behind the SDK client.  Every SDK request gets an    *)
(* answer of the environment: "ok" (the service serves the request from    *)
(* its state; a missing key is then its 404 ClientError), "denied" (the    *)
(* service refuses: a ClientError that is not 404) or "down" (the request  *)
(* never reaches the service: an SDK error that is no ClientError).        *)

Answers == {"ok", "denied", "down"}

AnswerExc(ans) ==
    IF ans = "denied" THEN Exc("ClientError", "403")
    ELSE Exc("EndpointConnectionError", "")

NotFound == Exc("ClientError", "404")

\* `except self.s3.exceptions.ClientError`
IsClientError(e) == e.exc = "ClientError"

\* object keys, as strings of characters
Keys == {<<"a">>, <<"d", "/">>}

\* user metadata mappings, as sets of <<key, value>> items
Metadatas == {{}, {<<"a", "1">>}, {<<"b", "2">>}}

\* what the service reports as LastModified and as the HTTP headers of a
\* head answer: values of the service, opaque to the client
Times == {1, 2}
HeadValues == [LastModified : Times, HTTPHeaders : {{<<"server", "AmazonS3">>}}]

NoObj == [exists |-> FALSE]
Obj(body, metadata) == [exists |-> TRUE, Body |-> body, Metadata |-> metadata]

Paths == {"p1", "p2", "p3"}

\* s3.head_object(Bucket, Key): the headers of the object
head_object(rem, bkt, key, ans, hv) ==
    IF ans # "ok" THEN [raised |-> AnswerExc(ans)]
    ELSE IF ~rem[bkt][key].exists THEN [raised |-> NotFound]
    ELSE [raised |-> NoExc,
          ret |-> [ContentLength |-> Len(rem[bkt][key].Body),
                   Metadata |-> rem[bkt][key].Metadata,
                   LastModified |-> hv.LastModified,
                   ResponseMetadata |-> [HTTPHeaders |-> hv.HTTPHeaders]]]

\* s3.get_object(Bucket, Key)['Body'].read(): the whole contents
get_object_read(rem, bkt, key, ans) ==
    IF ans # "ok" THEN [raised |-> AnswerExc(ans)]
    ELSE IF ~rem[bkt][key].exists
    THEN [raised |-> Exc("ClientError", "NoSuchKey")]
    ELSE [raised |-> NoExc, ret |-> rem[bkt][key].Body]

\* s3.download_file(Bucket, Key, Filename): the file is written on success
download_file(rem, dsk, bkt, key, path, ans) ==
    IF ans # "ok" THEN [raised |-> AnswerExc(ans), disk |-> dsk]
    ELSE IF ~rem[bkt][key].exists THEN [raised |-> NotFound, disk |-> dsk]
    ELSE [raised |-> NoExc,
          disk |-> [dsk EXCEPT ![path] = File(rem[bkt][key].Body)]]

\* s3.upload_file(Filename, Bucket, Key, ExtraArgs): a new object replaces
\* the one of that key; its metadata is ExtraArgs['Metadata'], else empty
upload_file(rem, dsk, path, bkt, key, extra_args, ans) ==
    IF ~dsk[path].isfile
    THEN [raised |-> Exc("FileNotFoundError", "upload source"), remote |-> rem]
    ELSE IF ans # "ok" THEN [raised |-> AnswerExc(ans), remote |-> rem]
    ELSE [raised |-> NoExc,
          remote |-> [rem EXCEPT ![bkt][key] =
              Obj(dsk[path].text,
                  IF extra_args.kind = "dict" THEN extra_args.d.Metadata
                  ELSE {})]]

\* s3.copy_object(Bucket, Key, CopySource, Metadata, MetadataDirective):
\* the contents of the source under the destination key, with the metadata
\* given when the directive is REPLACE and that of the source otherwise
copy_object(rem, bkt, key, src, metadata, directive, ans) ==
    IF ans # "ok" THEN [raised |-> AnswerExc(ans), remote |-> rem]
    ELSE IF ~rem[src.Bucket][src.Key].exists
    THEN [raised |-> Exc("ClientError", "NoSuchKey"), remote |-> rem]
    ELSE [raised |-> NoExc,
          remote |-> [rem EXCEPT ![bkt][key] =
              Obj(rem[src.Bucket][src.Key].Body,
                  IF directive = "REPLACE" THEN metadata
                  ELSE rem[src.Bucket][src.Key].Metadata)]]

\* s3.delete_object(Bucket, Key)
delete_object(rem, bkt, key, ans) ==
    IF ans # "ok" THEN [raised |-> AnswerExc(ans), remote |-> rem]
    ELSE [raised |-> NoExc, remote |-> [rem EXCEPT ![bkt][key] = NoObj]]

----------------------------------------------------------------------------
(* S3Wrapper: the operations, each on the bound bucket self.bucket.  An    *)
(* operation yields what it returns (ret), the exception that left it      *)
(* (raised), the SDK requests it made (requests), the prompts it showed    *)
(* (prompts) and the remote and local state it leaves.                     *)

Req(op, bkt, key) == [op |-> op, Bucket |-> bkt, Key |-> key]

CopyReq(bkt, key, src, metadata, directive) ==
    [op |-> "copy_object", Bucket |-> bkt, Key |-> key, CopySource |-> src,
     Metadata |-> metadata, MetadataDirective |-> directive]

\* bool(x) of a value a method tests: `if headers`, `if metadata`
TruthyVal(v) ==
    CASE v.kind = "None" -> FALSE
      [] v.kind = "bool" -> v.b
      [] v.kind = "dict" ->
            IF "items" \in DOMAIN v THEN v.items # {} ELSE DOMAIN v.d # {}
      [] OTHER -> TRUE

\* get_headers that catches ClientError alone
get_headers_narrow(self, rem, key, ans, hv) ==
    LET r == head_object(rem, self.bucket, key, ans, hv)
    IN [ret |-> IF r.raised = NoExc THEN PyDict(r.ret)
                ELSE IF IsClientError(r.raised) THEN PyBool(FALSE)
                ELSE PyNone,
        raised |-> IF r.raised = NoExc \/ IsClientError(r.raised) THEN NoExc
                   ELSE r.raised,
        requests |-> <<Req("head_object", self.bucket, key)>>]

\* S3Wrapper.get_headers: the headers, False on ClientError, False on any
\* other Exception
get_headers(self, rem, key, ans, hv) ==
    LET r == head_object(rem, self.bucket, key, ans, hv)
    IN [ret |-> IF r.raised = NoExc THEN PyDict(r.ret)
                ELSE IF IsClientError(r.raised) THEN PyBool(FALSE)
                ELSE PyBool(FALSE),
        raised |-> NoExc,
        requests |-> <<Req("head_object", self.bucket, key)>>]

\* S3Wrapper.get_size
get_size(self, rem, key, ans, hv) ==
    LET headers == get_headers(self, rem, key, ans, hv)
    IN [headers EXCEPT !.ret =
            IF TruthyVal(headers.ret) THEN PyInt(headers.ret.d.ContentLength)
            ELSE PyInt(0)]

\* S3Wrapper.get_metadata
get_metadata(self, rem, key, ans, hv) ==
    LET headers == get_headers(self, rem, key, ans, hv)
    IN [headers EXCEPT !.ret =
            IF TruthyVal(headers.ret) THEN PyItems(headers.ret.d.Metadata)
            ELSE PyNone]

\* S3Wrapper.get_last_modified
get_last_modified(self, rem, key, ans, hv) ==
    LET headers == get_headers(self, rem, key, ans, hv)
    IN [headers EXCEPT !.ret =
            IF TruthyVal(headers.ret) THEN PyTime(headers.ret.d.LastModified)
            ELSE PyNone]

\* S3Wrapper.get_response_headers
get_response_headers(self, rem, key, ans, hv) ==
    LET headers == get_headers(self, rem, key, ans, hv)
    IN [headers EXCEPT !.ret =
            IF TruthyVal(headers.ret)
            THEN PyItems(headers.ret.d.ResponseMetadata.HTTPHeaders)
            ELSE PyNone]

\* download that catches every Exception
download_catch_all(self, rem, dsk, object_key, download_path, ans) ==
    LET r == download_file(rem, dsk, self.bucket, object_key, download_path, ans)
    IN [ret |-> PyBool(r.raised = NoExc),
        raised |-> NoExc,
        requests |-> <<Req("download_file", self.bucket, object_key)>>,
        disk |-> r.disk]

\* S3Wrapper.download: True; False on ClientError; other errors leave it
download(self, rem, dsk, object_key, download_path, ans) ==
    LET r == download_file(rem, dsk, self.bucket, object_key, download_path, ans)
    IN [ret |-> IF r.raised = NoExc THEN PyBool(TRUE)
                ELSE IF IsClientError(r.raised) THEN PyBool(FALSE)
                ELSE PyNone,
        raised |-> IF r.raised = NoExc \/ IsClientError(r.raised) THEN NoExc
                   ELSE r.raised,
        requests |-> <<Req("download_file", self.bucket, object_key)>>,
        disk |-> r.disk]

\* S3Wrapper.upload: ExtraArgs carries the metadata when it is truthy
\* (src/S3Wrapper's upload has no metadata parameter: metadata is None)
upload(self, rem, dsk, file_path, object_key, metadata, ans) ==
    LET extra_args == IF TruthyVal(metadata)
                      THEN PyDict([Metadata |-> metadata.items])
                      ELSE PyNone
        r == upload_file(rem, dsk, file_path, self.bucket, object_key,
                         extra_args, ans)
    IN [ret |-> PyNone,
        raised |-> r.raised,
        requests |-> <<Req("upload_file", self.bucket, object_key)>>,
        remote |-> r.remote]

\* update_metadata that adds the new items to those the object has
update_metadata_merge(self, rem, object_key, metadata, ans_head, hv, ans_copy) ==
    LET headers == get_headers(self, rem, object_key, ans_head, hv)
    IN IF ~TruthyVal(headers.ret)
       THEN [ret |-> PyBool(FALSE), raised |-> NoExc,
             requests |-> headers.requests, remote |-> rem]
       ELSE LET src == [Bucket |-> self.bucket, Key |-> object_key]
                merged == metadata \cup headers.ret.d.Metadata
                r == copy_object(rem, self.bucket, object_key, src, merged,
                                 "REPLACE", ans_copy)
            IN [ret |-> PyBool(r.raised = NoExc), raised |-> NoExc,
                requests |-> Append(headers.requests,
                                    CopyReq(self.bucket, object_key, src,
                                            metadata, "REPLACE")),
                remote |-> r.remote]

\* S3Wrapper.update_metadata: False when get_headers is falsy; else the
\* self-copy with MetadataDirective REPLACE, True, or False on any Exception
update_metadata(self, rem, object_key, metadata, ans_head, hv, ans_copy) ==
    LET headers == get_headers(self, rem, object_key, ans_head, hv)
    IN IF ~TruthyVal(headers.ret)
       THEN [ret |-> PyBool(FALSE), raised |-> NoExc,
             requests |-> headers.requests, remote |-> rem]
       ELSE LET src == [Bucket |-> self.bucket, Key |-> object_key]
                r == copy_object(rem, self.bucket, object_key, src, metadata,
                                 "REPLACE", ans_copy)
            IN [ret |-> PyBool(r.raised = NoExc), raised |-> NoExc,
                requests |-> Append(headers.requests,
                                    CopyReq(self.bucket, object_key, src,
                                            metadata, "REPLACE")),
                remote |-> r.remote]

\* get_sha256 that never feeds the contents to the hash
get_sha256_unfed(self, rem, object_key, ans) ==
    LET r == get_object_read(rem, self.bucket, object_key, ans)
    IN [ret |-> IF r.raised = NoExc THEN PyStr(sha256_hexdigest(<<>>))
                ELSE PyNone,
        raised |-> NoExc,
        requests |-> <<Req("get_object", self.bucket, object_key)>>]

\* S3Wrapper.get_sha256: the digest of the whole contents; None on any
\* Exception of the request or of the read
get_sha256(self, rem, object_key, ans) ==
    LET r == get_object_read(rem, self.bucket, object_key, ans)
    IN [ret |-> IF r.raised = NoExc THEN PyStr(sha256_hexdigest(r.ret))
                ELSE PyNone,
        raised |-> NoExc,
        requests |-> <<Req("get_object", self.bucket, object_key)>>]

----------------------------------------------------------------------------
(* The operator's terminal: rich.prompt.Prompt.ask.                        *)

\* what the operator types at a prompt; "" is the Enter key alone
Typed == {"yes", "no", ""}

NoChoices == {}
NoDefault == [given |-> FALSE]
Default(d) == [given |-> TRUE, value |-> d]

\* Prompt.ask(text, choices, default): the default for a blank line when
\* one is given, else the line typed.  With choices, a line outside of them
\* is asked for again: `typed` is the line that ends the prompt.
Prompt_ask(choices, default, typed) ==
    [choices |-> choices,
     default |-> default,
     typed |-> typed,
     ret |-> IF typed = "" /\ default.given THEN default.value ELSE typed]

\* the lines that end a prompt with these choices and this default
Accepted(choices, default) ==
    {t \in Typed : \/ choices = NoChoices
                   \/ t \in choices
                   \/ (t = "" /\ default.given)}

\* delete without the test of get_headers
delete_unchecked(self, rem, object_key, warning_msg, typed, ans_head, hv, ans_delete) ==
    LET r == delete_object(rem, self.bucket, object_key, ans_delete)
    IN [ret |-> PyNone, raised |-> r.raised,
        prompts |-> IF warning_msg
                    THEN <<Prompt_ask(NoChoices, NoDefault, typed)>>
                    ELSE <<>>,
        requests |-> <<Req("head_object", self.bucket, object_key),
                       Req("delete_object", self.bucket, object_key)>>,
        remote |-> r.remote]

\* S3Wrapper.delete: the prompt when warning_msg (its answer is not read),
\* then delete_object when get_headers is truthy
delete(self, rem, object_key, warning_msg, typed, ans_head, hv, ans_delete) ==
    LET prompts == IF warning_msg
                   THEN <<Prompt_ask(NoChoices, NoDefault, typed)>>
                   ELSE <<>>
        headers == get_headers(self, rem, object_key, ans_head, hv)
    IN IF TruthyVal(headers.ret)
       THEN LET r == delete_object(rem, self.bucket, object_key, ans_delete)
            IN [ret |-> PyNone, raised |-> r.raised, prompts |-> prompts,
                requests |-> Append(headers.requests,
                                    Req("delete_object", self.bucket, object_key)),
                remote |-> r.remote]
       ELSE [ret |-> PyNone, raised |-> NoExc, prompts |-> prompts,
             requests |-> headers.requests, remote |-> rem]

\* the loop of delete_from_list over object_keys from position i on:
\* delete(obj, warning_msg=False) for each; an exception ends the loop
RECURSIVE delete_each(_, _, _, _, _, _)
delete_each(self, rem, object_keys, i, plan, hv) ==
    IF i > Len(object_keys)
    THEN [raised |-> NoExc, prompts |-> <<>>, requests |-> <<>>, remote |-> rem]
    ELSE LET d == delete(self, rem, object_keys[i], FALSE, "",
                         plan[i].head, hv, plan[i].delete)
         IN IF d.raised # NoExc
            THEN [raised |-> d.raised, prompts |-> d.prompts,
                  requests |-> d.requests, remote |-> d.remote]
            ELSE LET rest == delete_each(self, d.remote, object_keys, i + 1,
                                         plan, hv)
                 IN [raised |-> rest.raised,
                     prompts |-> d.prompts \o rest.prompts,
                     requests |-> d.requests \o rest.requests,
                     remote |-> rest.remote]

\* delete_from_list that loops whatever the answer
delete_from_list_unasked(self, rem, object_keys, typed, plan, hv) ==
    LET p == Prompt_ask({"yes", "no"}, Default("no"), typed)
        r == delete_each(self, rem, object_keys, 1, plan, hv)
    IN [ret |-> PyNone, raised |-> r.raised, prompts |-> <<p>> \o r.prompts,
        requests |-> r.requests, remote |-> r.remote]

\* S3Wrapper.delete_from_list: one prompt with the choices yes and no and
\* the default no; the loop only when its answer is yes
delete_from_list(self, rem, object_keys, typed, plan, hv) ==
    LET p == Prompt_ask({"yes", "no"}, Default("no"), typed)
    IN IF p.ret = "yes"
       THEN LET r == delete_each(self, rem, object_keys, 1, plan, hv)
            IN [ret |-> PyNone, raised |-> r.raised,
                prompts |-> <<p>> \o r.prompts,
                requests |-> r.requests, remote |-> r.remote]
       ELSE [ret |-> PyNone, raised |-> NoExc, prompts |-> <<p>>,
             requests |-> <<>>, remote |-> rem]

----------------------------------------------------------------------------
(* Object listing: the pages of list_objects_v2, get_objects, get_files.   *)

NoContents == [hasContents |-> FALSE]
Page(keys) == [hasContents |-> TRUE, Contents |-> keys]

\* get_objects that reads the first page alone
get_objects_first_page(pages) ==
    IF pages # <<>> /\ Head(pages).hasContents THEN Head(pages).Contents
    ELSE <<>>

\* S3Wrapper.get_objects: the keys of the pages that have 'Contents', in
\* page order
RECURSIVE get_objects(_)
get_objects(pages) ==
    IF pages = <<>> THEN <<>>
    ELSE (IF Head(pages).hasContents THEN Head(pages).Contents ELSE <<>>)
            \o get_objects(Tail(pages))

\* S3Wrapper.get_files: s3_dir is a str or None
get_files(pages, s3_dir) ==
    LET s3_objects == get_objects(pages)
    IN IF s3_dir.kind = "str"
       THEN SelectSeq(s3_objects,
                LAMBDA file : startswith(file, s3_dir.s)
                                /\ ~endswith(file, <<"/">>))
       ELSE SelectSeq(s3_objects, LAMBDA file : ~endswith(file, <<"/">>))

\* code points of the characters of keys: the service lists keys in the
\* order of their UTF-8 bytes
CharCode(c) == CASE c = "/" -> 47 [] c = "a" -> 97 [] c = "d" -> 100

RECURSIVE KeyLess(_, _)
KeyLess(x, y) ==
    IF x = <<>> THEN y # <<>>
    ELSE IF y = <<>> THEN FALSE
    ELSE IF Head(x) = Head(y) THEN KeyLess(Tail(x), Tail(y))
    ELSE CharCode(Head(x)) < CharCode(Head(y))

RECURSIVE SortedKeys(_)
SortedKeys(S) ==
    IF S = {} THEN <<>>
    ELSE LET m == CHOOSE x \in S : \A y \in S \ {x} : KeyLess(x, y)
         IN <<m>> \o SortedKeys(S \ {m})

RECURSIVE Chunks(_, _)
Chunks(s, n) ==
    IF Len(s) <= n THEN <<Page(s)>>
    ELSE <<Page(SubSeq(s, 1, n))>> \o Chunks(SubSeq(s, n + 1, Len(s)), n)

\* s3.get_paginator('list_objects_v2').paginate(Bucket): the keys of the
\* bucket in order, PageSize to a page; one page without 'Contents' when
\* the bucket holds nothing
paginate(rem, bkt) ==
    LET keys == SortedKeys({k \in Keys : rem[bkt][k].exists})
    IN IF keys = <<>> THEN <<NoContents>> ELSE Chunks(keys, PageSize)

----------------------------------------------------------------------------
(* The state machine.  The caller is single-threaded: a call is made when  *)
(* no call is pending (last is Idle), and its outcome stays in `last`      *)
(* until the caller takes it (Return).                                     *)

Idle == [op |-> "idle"]

Called(op, args, out) ==
    [op |-> op, args |-> args, out |-> out,
     pre |-> [remote |-> remote, disk |-> disk, wrapper |-> wrapper]]

Regions == {"us-east-1"}
ExplicitKeys == {PyNone, PyStr(<<>>), PyStr(<<32, 75>>)}

\* the bucket of the service that no client of the model is bound to holds
\* one object; the bound bucket starts empty
InitRemote ==
    [b \in BucketNames |->
        [k \in Keys |->
            IF b = "b2" /\ k = <<"a">> THEN Obj(<<97>>, {<<"a", "1">>})
            ELSE NoObj]]

InitDisk ==
    [p \in Paths |->
        CASE p = "p1" -> File(<<>>)
          [] p = "p2" -> File(<<97>>)
          [] OTHER -> NoFile]

NoUploads == [k \in Keys |-> PyNone]

\* S3Wrapper(bucket_name, region, access_key, secret_access_key)
Construct ==
    /\ last.op = "idle"
    /\ ~wrapper.constructed
    /\ \E pkg \in Packages, bucket_name \in AskedNames, region \in Regions,
          access_key \in ExplicitKeys, secret_access_key \in ExplicitKeys,
          resp \in ListBucketsResponses :
         LET out == S3Wrapper_init(pkg, fs, bucket_name, region, access_key,
                                   secret_access_key, resp)
         IN /\ wrapper' = out.self
            /\ last' = Called("init",
                          [pkg |-> pkg, bucket_name |-> bucket_name,
                           access_key |-> access_key,
                           secret_access_key |-> secret_access_key,
                           resp |-> resp],
                          out)
    /\ UNCHANGED <<fs, remote, disk, uploaded>>

\* the caller takes the outcome of the call; a failed construction leaves
\* no instance, and the caller may construct again
Return ==
    /\ last.op # "idle"
    /\ last' = Idle
    /\ UNCHANGED <<fs, wrapper, remote, disk, uploaded>>

Ready == last.op = "idle" /\ wrapper.constructed

\* the methods src/s3wrapper has and src/S3Wrapper has not
HasMetadataApi == wrapper.pkg = "s3wrapper"

Upload ==
    /\ Ready
    /\ \E file_path \in Paths, object_key \in Keys, ans \in Answers,
          metadata \in {PyNone} \cup
              (IF HasMetadataApi THEN {PyItems(m) : m \in Metadatas} ELSE {}) :
         LET out == upload(wrapper, remote, disk, file_path, object_key,
                           metadata, ans)
         IN /\ remote' = out.remote
            /\ uploaded' = IF out.raised = NoExc
                           THEN [uploaded EXCEPT
                                    ![object_key] = PyBytes(disk[file_path].text)]
                           ELSE uploaded
            /\ last' = Called("upload",
                          [file_path |-> file_path, object_key |-> object_key,
                           metadata |-> metadata, ans |-> ans],
                          out)
    /\ UNCHANGED <<fs, wrapper, disk>>

Download ==
    /\ Ready
    /\ \E object_key \in Keys, ans \in Answers :
         LET out == download(wrapper, remote, disk, object_key, "p3", ans)
         IN /\ disk' = out.disk
            /\ last' = Called("download",
                          [object_key |-> object_key, download_path |-> "p3",
                           ans |-> ans],
                          out)
    /\ UNCHANGED <<fs, wrapper, remote, uploaded>>

\* a method that only reads the headers of object_key
HeadReader(op, out, object_key, ans, hv) ==
    /\ last' = Called(op, [object_key |-> object_key, ans |-> ans, hv |-> hv],
                      out)
    /\ UNCHANGED <<fs, wrapper, remote, disk, uploaded>>

GetHeaders ==
    /\ Ready
    /\ \E object_key \in Keys, ans \in Answers, hv \in HeadValues :
         HeadReader("get_headers",
                    get_headers(wrapper, remote, object_key, ans, hv),
                    object_key, ans, hv)

GetSize ==
    /\ Ready
    /\ \E object_key \in Keys, ans \in Answers, hv \in HeadValues :
         HeadReader("get_size",
                    get_size(wrapper, remote, object_key, ans, hv),
                    object_key, ans, hv)

GetMetadata ==
    /\ Ready /\ HasMetadataApi
    /\ \E object_key \in Keys, ans \in Answers, hv \in HeadValues :
         HeadReader("get_metadata",
                    get_metadata(wrapper, remote, object_key, ans, hv),
                    object_key, ans, hv)

GetLastModified ==
    /\ Ready /\ HasMetadataApi
    /\ \E object_key \in Keys, ans \in Answers, hv \in HeadValues :
         HeadReader("get_last_modified",
                    get_last_modified(wrapper, remote, object_key, ans, hv),
                    object_key, ans, hv)

GetResponseHeaders ==
    /\ Ready /\ HasMetadataApi
    /\ \E object_key \in Keys, ans \in Answers, hv \in HeadValues :
         HeadReader("get_response_headers",
                    get_response_headers(wrapper, remote, object_key, ans, hv),
                    object_key, ans, hv)

UpdateMetadata ==
    /\ Ready /\ HasMetadataApi
    /\ \E object_key \in Keys, metadata \in Metadatas, ans_head \in Answers,
          hv \in HeadValues, ans_copy \in Answers :
         LET out == update_metadata(wrapper, remote, object_key, metadata,
                                    ans_head, hv, ans_copy)
         IN /\ remote' = out.remote
            /\ last' = Called("update_metadata",
                          [object_key |-> object_key, metadata |-> metadata,
                           ans_head |-> ans_head, hv |-> hv,
                           ans_copy |-> ans_copy],
                          out)
    /\ UNCHANGED <<fs, wrapper, disk, uploaded>>

GetSha256 ==
    /\ Ready
    /\ \E object_key \in Keys, ans \in Answers :
         /\ last' = Called("get_sha256",
                       [object_key |-> object_key, ans |-> ans],
                       get_sha256(wrapper, remote, object_key, ans))
    /\ UNCHANGED <<fs, wrapper, remote, disk, uploaded>>

\* the history forgets the uploads of the keys the bound bucket lost
Forget(rem) ==
    [k \in Keys |-> IF rem[wrapper.bucket][k].exists THEN uploaded[k] ELSE PyNone]

Delete ==
    /\ Ready
    /\ \E object_key \in Keys, warning_msg \in BOOLEAN, ans_head \in Answers,
          hv \in HeadValues, ans_delete \in Answers :
         \E typed \in (IF warning_msg THEN Accepted(NoChoices, NoDefault)
                       ELSE {""}) :
           LET out == delete(wrapper, remote, object_key, warning_msg, typed,
                             ans_head, hv, ans_delete)
           IN /\ remote' = out.remote
              /\ uploaded' = Forget(out.remote)
              /\ last' = Called("delete",
                            [object_key |-> object_key,
                             warning_msg |-> warning_msg, typed |-> typed,
                             ans_head |-> ans_head, hv |-> hv,
                             ans_delete |-> ans_delete],
                            out)
    /\ UNCHANGED <<fs, wrapper, disk>>

PlanEntries == [head : Answers, delete : Answers]

FaultsOf(e) == (IF e.head = "ok" THEN 0 ELSE 1) + (IF e.delete = "ok" THEN 0 ELSE 1)

RECURSIVE SumFaults(_, _)
SumFaults(plan, i) ==
    IF i = 0 THEN 0 ELSE FaultsOf(plan[i]) + SumFaults(plan, i - 1)

\* the answers to the requests of a batch of n keys, at most MaxFaults of
\* them failures
Plans(n) == {plan \in [1..n -> PlanEntries] : SumFaults(plan, n) <= MaxFaults}

DeleteFromList ==
    /\ Ready
    /\ \E object_keys \in SeqsUpTo(Keys, MaxBatch), hv \in HeadValues,
          typed \in Accepted({"yes", "no"}, Default("no")) :
         \E plan \in Plans(Len(object_keys)) :
           LET out == delete_from_list(wrapper, remote, object_keys, typed,
                                       plan, hv)
           IN /\ remote' = out.remote
              /\ uploaded' = Forget(out.remote)
              /\ last' = Called("delete_from_list",
                            [object_keys |-> object_keys, typed |-> typed,
                             plan |-> plan, hv |-> hv],
                            out)
    /\ UNCHANGED <<fs, wrapper, disk>>

\* the outcome of a listing method: an error of the paginator leaves it
Listed(ans, l) ==
    IF ans = "ok" THEN [ret |-> PyList(l), raised |-> NoExc]
    ELSE [ret |-> PyNone, raised |-> AnswerExc(ans)]

GetObjects ==
    /\ Ready
    /\ \E ans \in Answers :
         LET pages == paginate(remote, wrapper.bucket)
         IN last' = Called("get_objects", [pages |-> pages, ans |-> ans],
                           Listed(ans, get_objects(pages)))
    /\ UNCHANGED <<fs, wrapper, remote, disk, uploaded>>

Prefixes == {PyNone, PyStr(<<>>), PyStr(<<"d">>), PyStr(<<"d", "/">>), PyStr(<<"a">>)}

GetFiles ==
    /\ Ready
    /\ \E s3_dir \in Prefixes, ans \in Answers :
         LET pages == paginate(remote, wrapper.bucket)
         IN last' = Called("get_files",
                           [pages |-> pages, s3_dir |-> s3_dir, ans |-> ans],
                           Listed(ans, get_files(pages, s3_dir)))
    /\ UNCHANGED <<fs, wrapper, remote, disk, uploaded>>

----------------------------------------------------------------------------
(* Spec: a constructed client of either package, bound to bucket b1, and   *)
(* its operations.                                                         *)

OkListing ==
    [raised |-> NoExc, hasBuckets |-> TRUE,
     Buckets |-> <<[hasName |-> TRUE, Name |-> "b1"],
                   [hasName |-> TRUE, Name |-> "b2"]>>]

InitFs == [key |-> File(<<65, 10>>), private_key |-> File(<<65, 10>>)]

Init ==
    /\ fs = InitFs
    /\ wrapper \in {S3Wrapper_init(pkg, InitFs, "b1", "us-east-1", PyNone,
                                   PyNone, OkListing).self : pkg \in Packages}
    /\ remote = InitRemote
    /\ disk = InitDisk
    /\ uploaded = NoUploads
    /\ last = Idle

Next ==
    \/ Upload
    \/ Download
    \/ GetHeaders
    \/ GetSize
    \/ GetMetadata
    \/ GetLastModified
    \/ GetResponseHeaders
    \/ UpdateMetadata
    \/ GetSha256
    \/ Delete
    \/ DeleteFromList
    \/ GetObjects
    \/ GetFiles
    \/ Return

Spec == Init /\ [][Next]_vars

----------------------------------------------------------------------------
(* SpecList: get_objects and get_files on every listing, delivered by the  *)
(* paginator, of at most MaxPages pages of at most MaxPageLen keys.        *)

ListKeys == Keys \cup {<<"d", "/", "a">>}

PageOptions == {NoContents} \cup {Page(k) : k \in SeqsUpTo(ListKeys, MaxPageLen)}

Listings == SeqsUpTo(PageOptions, MaxPages)

ListObjects ==
    /\ Ready
    /\ \E pages \in Listings :
         last' = Called("get_objects", [pages |-> pages, ans |-> "ok"],
                        Listed("ok", get_objects(pages)))
    /\ UNCHANGED <<fs, wrapper, remote, disk, uploaded>>

ListFiles ==
    /\ Ready
    /\ \E pages \in Listings, s3_dir \in Prefixes :
         last' = Called("get_files",
                        [pages |-> pages, s3_dir |-> s3_dir, ans |-> "ok"],
                        Listed("ok", get_files(pages, s3_dir)))
    /\ UNCHANGED <<fs, wrapper, remote, disk, uploaded>>

NextList ==
    \/ ListObjects
    \/ ListFiles
    \/ Return

SpecList == Init /\ [][NextList]_vars

----------------------------------------------------------------------------
(* SpecConstruct: construction, from every content of the credential       *)
(* directory.                                                              *)

InitConstruct ==
    /\ fs \in [key : CredFiles, private_key : CredFiles]
    /\ wrapper = NoWrapper
    /\ remote = InitRemote
    /\ disk = InitDisk
    /\ uploaded = NoUploads
    /\ last = Idle

NextConstruct ==
    \/ Construct
    \/ Return

SpecConstruct == InitConstruct /\ [][NextConstruct]_vars

----------------------------------------------------------------------------
(* Claims about construction, checked under SpecConstruct.                 *)

ListingError == Exc("S3Exception", "error while getting bucket list")
BucketNotFound == Exc("S3Exception", "bucket not found")

\* C1: construction yields an instance only when the bucket listing is
\* well-formed and contains bucket_name; a well-formed listing without
\* bucket_name raises the bucket-not-found S3Exception; a listing that
\* lacks 'Buckets' or a 'Name' raises the listing-error S3Exception, a
\* different outcome; neither leaves an instance.
C1_ConstructionChecksBucket ==
    last.op = "init" =>
        LET a == last.args
            o == last.out
        IN /\ wrapper.constructed =>
                /\ o.raised = NoExc
                /\ WellFormed(a.resp)
                /\ a.bucket_name \in ListedNames(a.resp)
                /\ wrapper.bucket = a.bucket_name
           /\ (o.listed /\ WellFormed(a.resp)
                  /\ a.bucket_name \notin ListedNames(a.resp)) =>
                /\ o.raised = BucketNotFound
                /\ ~wrapper.constructed
           /\ (o.listed /\ a.resp.raised = NoExc /\ ~WellFormed(a.resp)) =>
                /\ o.raised = ListingError
                /\ o.raised # BucketNotFound
                /\ ~wrapper.constructed

\* C1's case: a well-formed, non-empty listing without the bucket asked for
C1_Witness ==
    /\ last.op = "init"
    /\ last.out.listed
    /\ WellFormed(last.args.resp)
    /\ last.args.resp.Buckets # <<>>
    /\ last.args.bucket_name \notin ListedNames(last.args.resp)
    /\ last.out.raised = BucketNotFound
    /\ ~wrapper.constructed

\* t is text without its leading and trailing whitespace
IsStripOf(t, text) ==
    /\ (t # <<>> => Head(t) \notin Whitespace /\ t[Len(t)] \notin Whitespace)
    /\ \E i \in 0..Len(text) :
         /\ i + Len(t) <= Len(text)
         /\ SubSeq(text, i + 1, i + Len(t)) = t
         /\ \A j \in (1..i) \cup ((i + Len(t) + 1)..Len(text)) :
                text[j] \in Whitespace

\* C7: in both packages, two non-empty explicit values are used as given
\* and no file is read; otherwise both values are the stripped texts of
\* the files key and private_key; and when either file is absent the
\* construction fails with FileNotFoundError and builds no client.
C7_CredentialResolution ==
    last.op = "init" =>
        LET a == last.args
            o == last.out
            explicit == /\ a.access_key.kind = "str" /\ a.access_key.s # <<>>
                        /\ a.secret_access_key.kind = "str"
                        /\ a.secret_access_key.s # <<>>
            present == fs.key.isfile /\ fs.private_key.isfile
        IN /\ explicit =>
                /\ o.read = {}
                /\ o.s3.aws_access_key_id = a.access_key
                /\ o.s3.aws_secret_access_key = a.secret_access_key
           /\ (~explicit /\ present) =>
                /\ o.read = {"key", "private_key"}
                /\ IsStripOf(o.s3.aws_access_key_id.s, fs.key.text)
                /\ IsStripOf(o.s3.aws_secret_access_key.s, fs.private_key.text)
           /\ (~explicit /\ ~present) =>
                /\ o.raised.exc = "FileNotFoundError"
                /\ o.s3 = PyNone
                /\ ~wrapper.constructed

\* C7 as far as src/s3wrapper goes
C7_HoldsOfLowercasePackage ==
    (last.op = "init" /\ last.args.pkg = "s3wrapper") => C7_CredentialResolution

----------------------------------------------------------------------------
(* Claims about the operations, checked under Spec.                        *)

\* the bound bucket, before the call and now
Before == last.pre.remote[last.pre.wrapper.bucket]
Now == remote[wrapper.bucket]

\* the requests of the call that are of kind op
RequestsOf(op) ==
    {i \in 1..Len(last.out.requests) : last.out.requests[i].op = op}

\* keys of the sequence s
Range(s) == {s[i] : i \in 1..Len(s)}

\* the prompt of a two-choice confirmation that defaults to "no"
IsYesNoPrompt(p) == p.choices = {"yes", "no"} /\ p.default = Default("no")

\* C2: delete_from_list shows exactly one prompt, a yes/no confirmation
\* that defaults to no.  Declined (no, or a blank line): no request is made
\* and the remote store is unchanged.  Accepted, and every request served:
\* every key of the list is gone from the bucket and from the listing that
\* get_objects then returns.
C2_DeleteFromListConfirmsOnce ==
    last.op = "delete_from_list" =>
        LET a == last.args
            o == last.out
            served == \A i \in 1..Len(a.object_keys) :
                          a.plan[i].head = "ok" /\ a.plan[i].delete = "ok"
        IN /\ Len(o.prompts) = 1
           /\ IsYesNoPrompt(o.prompts[1])
           /\ a.typed \in {"no", ""} =>
                /\ o.requests = <<>>
                /\ remote = last.pre.remote
           /\ (a.typed = "yes" /\ served) =>
                /\ o.raised = NoExc
                /\ \A k \in Range(a.object_keys) : ~Now[k].exists
                /\ \A k \in Keys \ Range(a.object_keys) : Now[k] = Before[k]
                /\ Range(get_objects(paginate(remote, wrapper.bucket)))
                       \cap Range(a.object_keys) = {}

\* C2's case: an accepted batch of two different keys, both present before
C2_Witness ==
    /\ last.op = "delete_from_list"
    /\ last.args.typed = "yes"
    /\ Len(last.args.object_keys) = 2
    /\ last.args.object_keys[1] # last.args.object_keys[2]
    /\ \A k \in Range(last.args.object_keys) : Before[k].exists /\ ~Now[k].exists
    /\ Len(last.out.prompts) = 1

\* C3: delete with warning_msg shows a yes/no confirmation that defaults
\* to no, makes the delete request only after the answer yes, and leaves
\* the object in the store after no or a blank line.
C3_DeleteWaitsForYes ==
    (last.op = "delete" /\ last.args.warning_msg) =>
        LET a == last.args
            o == last.out
        IN /\ Len(o.prompts) = 1
           /\ IsYesNoPrompt(o.prompts[1])
           /\ RequestsOf("delete_object") # {} => o.prompts[1].ret = "yes"
           /\ (a.typed \in {"no", ""} /\ Before[a.object_key].exists) =>
                Now[a.object_key].exists

\* C10: delete with warning_msg=False.  A delete request is made only
\* right after the head request of the same key returned headers.  When
\* the key is absent or the head request failed, there is no delete request
\* and the store is unchanged.  When the head request returned headers and
\* the delete request is served, that key is gone and every other key of
\* every bucket is as before; the instance is unchanged.
C10_DeleteEffectAndFrame ==
    (last.op = "delete" /\ ~last.args.warning_msg) =>
        LET a == last.args
            o == last.out
            b == wrapper.bucket
            headed == a.ans_head = "ok" /\ Before[a.object_key].exists
        IN /\ wrapper = last.pre.wrapper
           /\ o.prompts = <<>>
           /\ RequestsOf("delete_object") # {} =>
                /\ headed
                /\ o.requests = <<Req("head_object", b, a.object_key),
                                  Req("delete_object", b, a.object_key)>>
           /\ ~headed =>
                /\ RequestsOf("delete_object") = {}
                /\ o.raised = NoExc
                /\ remote = last.pre.remote
           /\ (headed /\ a.ans_delete = "ok") =>
                /\ RequestsOf("delete_object") # {}
                /\ ~Now[a.object_key].exists
                /\ \A bb \in BucketNames, k \in Keys :
                       (bb # b \/ k # a.object_key) =>
                           remote[bb][k] = last.pre.remote[bb][k]

\* C10's case: a present key deleted while another key stays
C10_Witness ==
    /\ last.op = "delete"
    /\ ~last.args.warning_msg
    /\ Before[last.args.object_key].exists
    /\ ~Now[last.args.object_key].exists
    /\ \E k \in Keys \ {last.args.object_key} : Now[k].exists

\* the object the call is about, before the call
Target == Before[last.args.object_key]

\* C4 as stated: download returns True when the object was fetched; for a
\* key that is absent it returns False, raises nothing and leaves the
\* destination as it was; every other error of the transfer, a refusal of
\* the service on an existing key included, leaves the call as an
\* exception and is never the result False.
C4_DownloadPropagatesOtherErrors ==
    last.op = "download" =>
        LET a == last.args
            o == last.out
        IN /\ (a.ans = "ok" /\ Target.exists) =>
                /\ o.ret = PyBool(TRUE) /\ o.raised = NoExc
                /\ disk[a.download_path] = File(Target.Body)
           /\ (a.ans = "ok" /\ ~Target.exists) =>
                /\ o.ret = PyBool(FALSE) /\ o.raised = NoExc
                /\ disk = last.pre.disk
           /\ a.ans # "ok" =>
                /\ o.raised # NoExc
                /\ o.ret # PyBool(FALSE)

\* C4 as the code has it: download returns True when the object was
\* fetched; on every ClientError, that of an absent key and a refusal of
\* the service on an existing key alike, it returns False, raises nothing
\* and leaves the destination as it was; an error that is no ClientError
\* leaves the call as that exception, the destination as it was.
C4_DownloadFalseOnClientError ==
    last.op = "download" =>
        LET a == last.args
            o == last.out
        IN /\ (a.ans = "ok" /\ Target.exists) =>
                /\ o.ret = PyBool(TRUE) /\ o.raised = NoExc
                /\ disk[a.download_path] = File(Target.Body)
           /\ ((a.ans = "ok" /\ ~Target.exists) \/ a.ans = "denied") =>
                /\ o.ret = PyBool(FALSE) /\ o.raised = NoExc
                /\ disk = last.pre.disk
           /\ a.ans = "down" =>
                /\ o.raised = Exc("EndpointConnectionError", "")
                /\ o.ret # PyBool(FALSE)
                /\ disk = last.pre.disk
           /\ remote = last.pre.remote

\* C4's case: the service refuses the download of an existing object while
\* the destination holds an earlier download
C4_Witness ==
    /\ last.op = "download"
    /\ last.args.ans = "denied"
    /\ Target.exists
    /\ last.pre.disk[last.args.download_path].isfile
    /\ last.out.ret = PyBool(FALSE)

\* the methods derived from get_headers
HeadOps ==
    {"get_headers", "get_size", "get_metadata", "get_last_modified",
     "get_response_headers"}

\* C5: get_headers raises nothing: it returns the headers of the object
\* when the head request succeeds, and False when the key is absent or the
\* request fails in any other way.  The derived readers agree with it on
\* the same answer of the service: where get_headers gives False, get_size
\* gives 0 and get_metadata, get_last_modified and get_response_headers
\* give None; where it gives headers, they give the field of those headers.
C5_HeadersAndDerivedReaders ==
    last.op \in HeadOps =>
        LET a == last.args
            o == last.out
            found == a.ans = "ok" /\ Target.exists
            h == get_headers(wrapper, last.pre.remote, a.object_key, a.ans, a.hv).ret
        IN /\ o.raised = NoExc
           /\ remote = last.pre.remote
           /\ h = IF found
                  THEN PyDict([ContentLength |-> Len(Target.Body),
                               Metadata |-> Target.Metadata,
                               LastModified |-> a.hv.LastModified,
                               ResponseMetadata |->
                                   [HTTPHeaders |-> a.hv.HTTPHeaders]])
                  ELSE PyBool(FALSE)
           /\ last.op = "get_headers" => o.ret = h
           /\ last.op = "get_size" =>
                o.ret = IF h = PyBool(FALSE) THEN PyInt(0)
                        ELSE PyInt(h.d.ContentLength)
           /\ last.op = "get_metadata" =>
                o.ret = IF h = PyBool(FALSE) THEN PyNone
                        ELSE PyItems(h.d.Metadata)
           /\ last.op = "get_last_modified" =>
                o.ret = IF h = PyBool(FALSE) THEN PyNone
                        ELSE PyTime(h.d.LastModified)
           /\ last.op = "get_response_headers" =>
                o.ret = IF h = PyBool(FALSE) THEN PyNone
                        ELSE PyItems(h.d.ResponseMetadata.HTTPHeaders)

\* C5's case: a derived reader on a request that fails with an error that
\* is no ClientError, for a key that exists
C5_Witness ==
    /\ last.op = "get_metadata"
    /\ last.args.ans = "down"
    /\ Target.exists
    /\ last.out.ret = PyNone

\* C6: update_metadata on an absent key returns False and makes no copy
\* request, the store unchanged.  On a present key whose head and copy
\* requests are served it makes one copy request, of the key onto itself
\* with the directive REPLACE, and returns True; get_metadata then returns
\* exactly the mapping given, the contents are as before and so is every
\* other object.  When the copy request fails it returns False and raises
\* nothing.
C6_UpdateMetadataReplaces ==
    last.op = "update_metadata" =>
        LET a == last.args
            o == last.out
            b == wrapper.bucket
            k == a.object_key
        IN /\ o.raised = NoExc
           /\ ~Target.exists =>
                /\ o.ret = PyBool(FALSE)
                /\ RequestsOf("copy_object") = {}
                /\ remote = last.pre.remote
           /\ (Target.exists /\ a.ans_head = "ok" /\ a.ans_copy = "ok") =>
                /\ o.ret = PyBool(TRUE)
                /\ Cardinality(RequestsOf("copy_object")) = 1
                /\ \A i \in RequestsOf("copy_object") :
                       o.requests[i] =
                           CopyReq(b, k, [Bucket |-> b, Key |-> k],
                                   a.metadata, "REPLACE")
                /\ \A hv \in HeadValues :
                       get_metadata(wrapper, remote, k, "ok", hv).ret
                           = PyItems(a.metadata)
                /\ Now[k].Body = Target.Body
                /\ \A bb \in BucketNames, kk \in Keys :
                       (bb # b \/ kk # k) =>
                           remote[bb][kk] = last.pre.remote[bb][kk]
           /\ (Target.exists /\ a.ans_head = "ok" /\ a.ans_copy # "ok") =>
                /\ o.ret = PyBool(FALSE)
                /\ remote = last.pre.remote

\* C6's case: the metadata of an object that had other metadata replaced
C6_Witness ==
    /\ last.op = "update_metadata"
    /\ Target.exists
    /\ Target.Metadata # {}
    /\ last.args.metadata # {}
    /\ last.args.metadata \cap Target.Metadata = {}
    /\ last.out.ret = PyBool(TRUE)
    /\ Now[last.args.object_key].Metadata = last.args.metadata

\* C9: get_sha256 raises nothing.  For a key whose last upload (none nor a
\* delete of the key since) was of the bytes B, served, it returns the
\* SHA-256 digest of B in hexadecimal; for an absent key and for a failed
\* read it returns None.
C9_Sha256OfLastUpload ==
    last.op = "get_sha256" =>
        LET a == last.args
            o == last.out
            k == a.object_key
        IN /\ o.raised = NoExc
           /\ (a.ans = "ok" /\ uploaded[k] # PyNone) =>
                o.ret = PyStr(DigestOfBodies[uploaded[k].bytes])
           /\ (a.ans # "ok" \/ ~Target.exists) => o.ret = PyNone

\* C9's case: the digest of an object uploaded over an earlier upload of
\* other bytes
C9_Witness ==
    /\ last.op = "get_sha256"
    /\ last.args.ans = "ok"
    /\ uploaded[last.args.object_key] = PyBytes(<<97>>)
    /\ last.out.ret = PyStr(DigestOfBodies[<<97>>])
    /\ last.out.ret # PyStr(DigestOfBodies[<<>>])

----------------------------------------------------------------------------
(* The claim about listing, checked under SpecList.                        *)

\* the keys of the pages, page after page
RECURSIVE AllKeys(_, _)
AllKeys(pages, i) ==
    IF i > Len(pages) THEN <<>>
    ELSE (IF pages[i].hasContents THEN pages[i].Contents ELSE <<>>)
            \o AllKeys(pages, i + 1)

\* r is l restricted to the positions in S, in the order of l
IsRestriction(r, l, S) ==
    /\ Len(r) = Cardinality(S)
    /\ \A i \in S : r[Cardinality({j \in S : j <= i})] = l[i]

\* C8: get_objects returns the keys of all pages in page order; get_files
\* returns them in that order without the keys that end in "/" and, when
\* s3_dir is a str, without the keys that do not start with it.  On a
\* listing of no keys both return the empty list and raise nothing.
C8_ListFilesFiltersListObjects ==
    last.op \in {"get_objects", "get_files"} =>
        LET a == last.args
            o == last.out
            l == AllKeys(a.pages, 1)
            wanted(key) ==
                /\ key[Len(key)] # "/"
                /\ (a.s3_dir.kind = "str" =>
                       /\ Len(a.s3_dir.s) <= Len(key)
                       /\ \A j \in 1..Len(a.s3_dir.s) : key[j] = a.s3_dir.s[j])
        IN /\ o.raised = NoExc
           /\ last.op = "get_objects" => o.ret = PyList(l)
           /\ last.op = "get_files" =>
                /\ o.ret.kind = "list"
                /\ IsRestriction(o.ret.l, l, {i \in 1..Len(l) : wanted(l[i])})
           /\ l = <<>> => o.ret = PyList(<<>>)

\* C8's case: two pages, a prefix, a marker and a key outside the prefix
\* left out, two keys kept in page order
C8_Witness ==
    /\ last.op = "get_files"
    /\ Len(last.args.pages) = 2
    /\ last.args.s3_dir = PyStr(<<"d">>)
    /\ last.args.pages[1] = Page(<<<<"d", "/", "a">>, <<"a">>>>)
    /\ last.args.pages[2] = Page(<<<<"d", "/">>, <<"d", "/", "a">>>>)
    /\ last.out.ret = PyList(<<<<"d", "/", "a">>, <<"d", "/", "a">>>>)

====
